---- MODULE Spec2Model ----
(***************************************************************************)
(* Model of modelopt/torch/quantization/calib/histogram.py:                *)
(*   HistogramCalibrator (collect, reset, compute_amax), the three search  *)
(*   functions _compute_amax_entropy/_mse/_percentile, calibrate_weights.  *)
(*                                                                         *)
(* Numbers.  Tensor values are small integers; every float the code forms  *)
(* from them (bin edges, widths, centers) is a rational whose denominator  *)
(* divides Scale, and is stored as the integer value * Scale.  Arithmetic  *)
(* is exact: float rounding is not modelled.                               *)
(* None is the empty sequence (a real histogram has at least one bin).     *)
(***************************************************************************)
EXTENDS Integers, Sequences, FiniteSets, TLC

\* ---------------------------------------------------------------- bounds
MaxVal == 2
MaxBatch == 2
MaxTotal == 3
MaxBins == 6
MaxDiv == 2
MaxNumel == 4

\* ------------------------------------------------------- program constants
DefaultStartBin == 128
DefaultPercentile == 9999
PctFull == 10000

RECURSIVE Gcd(_, _)
Gcd(a, b) == IF b = 0 THEN a ELSE Gcd(b, a % b)

RECURSIVE LcmUpTo(_)
LcmUpTo(n) == IF n <= 1 THEN 1 ELSE LET l == LcmUpTo(n - 1) IN (l * n) \div Gcd(l, n)

\* one model unit is 1/Scale: Scale/2, Scale/n (n <= MaxBins) and
\* Scale/(2*(DefaultStartBin+1)) are integers
Scale == 2 * LcmUpTo(MaxBins) * (DefaultStartBin + 1)

None == << >>

Values == (0 - 1) .. MaxVal
\* a batch is a tensor of 1..MaxBatch values; the order of a tensor's elements
\* plays no part in collect, so batches are listed in non-decreasing order
Batches == {b \in UNION {[1..n -> Values] : n \in 1..MaxBatch} :
               \A i \in DOMAIN b : \A j \in DOMAIN b : i <= j => b[i] <= b[j]}
CtorBins == {2, 3}
Methods == {"entropy", "mse", "percentile", "max"}
Strides == {1, 2}
StartBins == {0, 1, DefaultStartBin}
WValues == {0 - 2, 0, 1}
WNumBins == {2, 3}
WNumBinsMse == {2, DefaultStartBin + 1}
WMethods == {"max", "mse", "percentile", "entropy"}
WPercentiles == {5000, PctFull, PctFull + 1}
Percentiles == {0 - 1, 0, 5000, DefaultPercentile, PctFull, PctFull + 1}

\* ---------------------------------------------------------------- helpers
Abs(v) == IF v < 0 THEN 0 - v ELSE v

Last(s) == s[Len(s)]

\* s[lo] + ... + s[hi]
RECURSIVE SumRange(_, _, _)
SumRange(s, lo, hi) ==
    IF lo > hi THEN 0
    ELSE IF lo = hi THEN s[lo]
    ELSE LET mid == (lo + hi) \div 2
         IN SumRange(s, lo, mid) + SumRange(s, mid + 1, hi)

SumSeq(s) == SumRange(s, 1, Len(s))

RECURSIVE SeqMax(_)
SeqMax(s) == IF Len(s) = 1 THEN s[1]
             ELSE LET m == SeqMax(Tail(s)) IN IF s[1] > m THEN s[1] ELSE m

RECURSIVE SeqMin(_)
SeqMin(s) == IF Len(s) = 1 THEN s[1]
             ELSE LET m == SeqMin(Tail(s)) IN IF s[1] < m THEN s[1] ELSE m

CeilDiv(a, b) == (a + b - 1) \div b

\* x.abs() when torch.min(x) < 0, then x.float()
ToAbsFloat(x) == [k \in DOMAIN x |-> (IF SeqMin(x) < 0 THEN Abs(x[k]) ELSE x[k]) * Scale]

\* x[where(x != 0)]
DropZeros(x) == SelectSeq(x, LAMBDA v : v # 0)

\* np.linspace / torch.linspace(start, stop, num), num >= 2
Linspace(start, stop, num) ==
    [i \in 1..num |-> start + ((stop - start) * (i - 1)) \div (num - 1)]

\* np.arange / torch.arange(start, stop, step), step > 0
Arange(start, stop, step) ==
    IF stop <= start THEN << >>
    ELSE [i \in 1..CeilDiv(stop - start, step) |-> start + (i - 1) * step]

\* the re-binned batch alone, the old counts not added
AddPrefixLost(hist, old) == hist

\* hist[:len(old)] += old
AddPrefix(hist, old) ==
    [i \in DOMAIN hist |-> hist[i] + (IF i <= Len(old) THEN old[i] ELSE 0)]

\* np.histogram(x, bins=edges): bin i is [edges[i], edges[i+1]), the last bin
\* is closed; values outside [edges[1], Last(edges)] are dropped
NpHistogramEdges(xs, edges) ==
    LET n == Len(edges) - 1 IN
    [i \in 1..n |-> Cardinality({k \in DOMAIN xs :
        /\ edges[i] <= xs[k]
        /\ IF i = n THEN xs[k] <= edges[i + 1] ELSE xs[k] < edges[i + 1]})]

\* np.histogram's outer edges: (0,1) for empty data without a range,
\* widened by 0.5 on both sides when first = last
NpOuterEdges(first, last) ==
    IF first = last THEN <<first - Scale \div 2, last + Scale \div 2>>
    ELSE <<first, last>>

\* np.histogram(x, bins=nbins): range is [min(x), max(x)]
NpHistogramBins(xs, nbins) ==
    LET r == IF xs = << >> THEN <<0, Scale>>
             ELSE NpOuterEdges(SeqMin(xs), SeqMax(xs))
        e == Linspace(r[1], r[2], nbins + 1)
    IN [hist |-> NpHistogramEdges(xs, e), edges |-> e]

\* np.histogram(x, bins=nbins, range=(lo, hi))
NpHistogramRange(xs, nbins, lo, hi) ==
    LET r == NpOuterEdges(lo, hi)
        e == Linspace(r[1], r[2], nbins + 1)
    IN [hist |-> NpHistogramEdges(xs, e), edges |-> e]

\* torch.histc(x, bins, min, max): when min = max the data's min and max are
\* used, and when these are equal too the range is [min-1, max+1]; elements
\* outside the range are ignored; bin = floor((x-min)*bins/(max-min)), the
\* right end falling in the last bin
Histc(xs, bins, mn, mx) ==
    LET lo0 == IF mn = mx /\ xs # << >> THEN SeqMin(xs) ELSE mn
        hi0 == IF mn = mx /\ xs # << >> THEN SeqMax(xs) ELSE mx
        lo == IF lo0 = hi0 THEN lo0 - Scale ELSE lo0
        hi == IF lo0 = hi0 THEN hi0 + Scale ELSE hi0
        BinOf(v) == LET b == ((v - lo) * bins) \div (hi - lo)
                    IN IF b >= bins THEN bins ELSE b + 1
    IN [i \in 1..bins |-> Cardinality({k \in DOMAIN xs :
            lo <= xs[k] /\ xs[k] <= hi /\ BinOf(xs[k]) = i})]

\* ------------------------------------------------------------- searches
\* Python range(start, stop, step), step > 0
PyRange(start, stop, step) == Arange(start, stop, step)

Reverse(a) == [i \in DOMAIN a |-> a[Len(a) + 1 - i]]

\* A score (divergence or mse) is NaN, a rank 0..MaxDiv (0 is exactly 0.0,
\* larger ranks are larger positive floats) or +inf.
NaN == 0 - 1
Inf == MaxDiv + 1

\* np.argmin(a), 0-based, a non-empty: the first NaN if there is one, else
\* the first occurrence of the least value
NpArgmin(a) ==
    LET nans == {i \in DOMAIN a : a[i] = NaN}
        least == {i \in DOMAIN a : \A j \in DOMAIN a : a[i] <= a[j]}
        Least(S) == CHOOSE i \in S : \A j \in S : i <= j
    IN (IF nans # {} THEN Least(nans) ELSE Least(least)) - 1

\* bins = calib_hist[:]; bins[0] = bins[1]
EntropyBins(hist) == [hist EXCEPT ![1] = hist[2]]

\* The values scipy.stats.entropy(reference_density, new_density) can take
\* for cut i >= 1 (num_bits = 8: 128 levels, so each of the first i <= 128
\* bins has its own level and new_density = bins[:i]):
\*   NaN  when a density sums to 0 (scipy divides each by its sum);
\*   +inf when the mass folded into reference[i-1] meets new_density[i-1] = 0;
\*   0    when no mass lies beyond i (the two densities are equal);
\*   else some positive float.
Divergence(bins, i) ==
    LET total == SumSeq(bins)
        head == SumRange(bins, 1, i)
    IN IF total = 0 \/ head = 0 THEN {NaN}
       ELSE IF total > head /\ bins[i] = 0 THEN {Inf}
       ELSE IF total = head THEN {0}
       ELSE 1..MaxDiv

\* the divergences list the loop can build over the first k candidates
RECURSIVE Divergences(_, _, _)
Divergences(bins, cand, k) ==
    IF k = 0 THEN {<< >>}
    ELSE {Append(d, e) : d \in Divergences(bins, cand, k - 1),
                         e \in Divergence(bins, cand[k])}

Value(v) == [kind |-> "value", val |-> v]
Error == [kind |-> "error", val |-> 0]
NoneResult == [kind |-> "None", val |-> 0]

\* _compute_amax_entropy after the loop: divergences d over the candidates
\* range(starting, stop + 1, stride)
EntropyPick(calib_bin_edges_, d, stride, starting) ==
    LET last_argmin == Len(d) - 1 - NpArgmin(Reverse(d))
    IN calib_bin_edges_[last_argmin * stride + starting + 1]

\* centers = (edges[1:] + edges[:-1]) / 2
Centers(edges) == [i \in 1..(Len(edges) - 1) |-> (edges[i + 1] + edges[i]) \div 2]

\* _compute_amax_mse after the loop: mses over arguments
MsePick(centers, mses, arguments) == centers[arguments[NpArgmin(mses) + 1] + 1]

\* _compute_amax_percentile on a histogram: np.searchsorted(cdf, percentile/100)
\* is the first index whose cumulative share reaches percentile/100
PercentileIdx(hist, percentile) ==
    LET total == SumSeq(hist)
        reach == {i \in DOMAIN hist : SumRange(hist, 1, i) * PctFull >= percentile * total}
    IN IF reach = {} THEN Len(hist)
       ELSE (CHOOSE i \in reach : \A j \in reach : i <= j) - 1

\* _compute_amax_percentile without its return of None for an absent histogram
ComputeAmaxPercentileNoneRaises(hist, edges, percentile) ==
    IF percentile < 0 \/ percentile > PctFull THEN Error
    ELSE IF edges = None /\ hist = None THEN Error
    ELSE Value(edges[PercentileIdx(hist, percentile) + 1])

\* _compute_amax_percentile
ComputeAmaxPercentile(hist, edges, percentile) ==
    IF percentile < 0 \/ percentile > PctFull THEN Error
    ELSE IF edges = None /\ hist = None THEN NoneResult
    ELSE Value(edges[PercentileIdx(hist, percentile) + 1])

\* _compute_amax_entropy: the outcomes [result, d, hist], hist being the
\* array passed in as it is left by the call
ComputeAmaxEntropy(hist, edges, stride, start_bin) ==
    IF edges = None /\ hist = None THEN {[result |-> NoneResult, d |-> << >>, hist |-> hist]}
    ELSE IF Len(hist) < 2 THEN {[result |-> Error, d |-> << >>, hist |-> hist]}
    ELSE
        LET bins == EntropyBins(hist)
            cand == PyRange(start_bin, Len(bins) + 1, stride)
        IN IF cand = << >> \/ start_bin = 0
           THEN {[result |-> Error, d |-> << >>, hist |-> bins]}
           ELSE {[result |-> Value(EntropyPick(edges, d, stride, start_bin)),
                  d |-> d, hist |-> bins] :
                    d \in Divergences(bins, cand, Len(cand))}

\* _compute_amax_mse: the results it can return; the mse of a candidate comes
\* from fake_tensor_quant and is any positive rank
ComputeAmaxMse(hist, edges, stride, start_bin) ==
    IF edges = None /\ hist = None THEN {NoneResult}
    ELSE
        LET centers == Centers(edges)
            arguments == PyRange(start_bin, Len(centers), stride)
        IN IF arguments = << >> THEN {Error}
           ELSE {Value(MsePick(centers, mses, arguments)) :
                    mses \in [DOMAIN arguments -> 1..MaxDiv]}

\* ------------------------------------------------------------ calibrator
\* A calibrator object: [hist, edges, num_bins] = (_calib_hist,
\* _calib_bin_edges, _num_bins).  The collect operators return the object
\* after the call and ev: "first" (histogram created), "same" (accumulated
\* on the existing edges), "extend" (bins appended first), "error" (the call
\* raised; the object is as before).
Raised(cal) == [hist |-> cal.hist, edges |-> cal.edges, num_bins |-> cal.num_bins,
                ev |-> "error"]

\* collect, not self._torch_hist
CollectNumpy(cal, skip, x) ==
    LET x_np == IF skip THEN DropZeros(x) ELSE x IN
    IF cal.edges = None /\ cal.hist = None THEN
        LET h == NpHistogramBins(x_np, cal.num_bins)
        IN [hist |-> h.hist, edges |-> h.edges, num_bins |-> cal.num_bins, ev |-> "first"]
    ELSE IF x_np = << >> THEN Raised(cal)      \* np.max of an empty array
    ELSE
        LET temp_amax == SeqMax(x_np)
            grow == temp_amax > Last(cal.edges)
            width == cal.edges[2] - cal.edges[1]
            new_bin_edges == Arange(Last(cal.edges) + width, temp_amax + width, width)
            edges == IF grow THEN cal.edges \o new_bin_edges ELSE cal.edges
            hist == NpHistogramEdges(x_np, edges)
        IN [hist |-> AddPrefix(hist, cal.hist), edges |-> edges,
            num_bins |-> cal.num_bins, ev |-> IF grow THEN "extend" ELSE "same"]

\* collect, self._torch_hist
CollectTorch(cal, skip, x) ==
    LET xs == IF skip THEN DropZeros(x) ELSE x IN
    IF xs = << >> THEN Raised(cal)             \* x.max() of an empty tensor
    ELSE
        LET x_max == SeqMax(xs) IN
        IF cal.edges = None /\ cal.hist = None THEN
            [hist |-> Histc(xs, cal.num_bins, 0, x_max),
             edges |-> Linspace(0, x_max, cal.num_bins + 1),
             num_bins |-> cal.num_bins, ev |-> "first"]
        ELSE
            LET grow == x_max > Last(cal.edges)
                width == cal.edges[2] - cal.edges[1]
            IN IF grow /\ width = 0 THEN Raised(cal)   \* int(inf) raises
               ELSE
                LET nb == IF grow THEN CeilDiv(x_max, width) ELSE cal.num_bins
                    edges == IF grow THEN Arange(0, x_max + width, width) ELSE cal.edges
                    hist == Histc(xs, nb, 0, Last(edges))
                IN [hist |-> AddPrefix(hist, cal.hist), edges |-> edges,
                    num_bins |-> nb, ev |-> IF grow THEN "extend" ELSE "same"]

CollectOp(cal, th, skip, x) ==
    IF th THEN CollectTorch(cal, skip, ToAbsFloat(x))
    ELSE CollectNumpy(cal, skip, ToAbsFloat(x))

\* number of values of batch x that collect counts (zeros skipped if configured)
Ingest(skip, x) == IF skip THEN Len(DropZeros(x)) ELSE Len(x)

NoCall == [method |-> "none", stride |-> 0, start_bin |-> 0, percentile |-> 0]
NoResult == [kind |-> "none", val |-> 0]

VARIABLES
    torch_hist,        \* self._torch_hist
    skip_zeros,        \* self._skip_zeros
    ctor_num_bins,     \* the constructor's num_bins argument
    num_bins,          \* self._num_bins
    calib_hist,        \* self._calib_hist
    calib_bin_edges,   \* self._calib_bin_edges
    fresh_num_bins,    \* a second calibrator, constructed with the same
    fresh_hist,        \*   arguments at the last reset and fed the same
    fresh_bin_edges,   \*   batches since
    ingested,          \* values counted by collect since construction/reset
    batch,             \* argument of the last collect
    event,             \* what the last call did
    call,              \* arguments of the last compute_amax
    result,            \* what the last compute_amax returned
    divergences,       \* the divergences the last entropy search compared
    weight,            \* module.weight, a 2-D tensor as a sequence of rows
    transposed,        \* the module is a QuantConvTranspose1d/2d/3d
    amax,              \* module.weight_quantizer.amax
    wcall,             \* arguments of the last calibrate_weights
    wevent             \* what the last calibrate_weights did

vars == <<torch_hist, skip_zeros, ctor_num_bins, num_bins, calib_hist,
          calib_bin_edges, fresh_num_bins, fresh_hist, fresh_bin_edges,
          ingested, batch, event, call, result, divergences,
          weight, transposed, amax, wcall, wevent>>

cvars == <<torch_hist, skip_zeros, ctor_num_bins, num_bins, calib_hist,
           calib_bin_edges, fresh_num_bins, fresh_hist, fresh_bin_edges,
           ingested, batch, event, call, result, divergences>>

wvars == <<weight, transposed, amax, wcall, wevent>>

NoAmax == [shape |-> << >>, vals |-> << >>]
NoWCall == [method |-> "none", perchannel |-> FALSE, percentile |-> 0, num_bins |-> 0]

config == <<torch_hist, skip_zeros, ctor_num_bins>>

\* __init__
Init ==
    /\ torch_hist \in BOOLEAN
    /\ skip_zeros \in BOOLEAN
    /\ ctor_num_bins \in CtorBins
    /\ num_bins = ctor_num_bins
    /\ calib_hist = None
    /\ calib_bin_edges = None
    /\ fresh_num_bins = ctor_num_bins
    /\ fresh_hist = None
    /\ fresh_bin_edges = None
    /\ ingested = 0
    /\ batch = << >>
    /\ event = "init"
    /\ call = NoCall
    /\ result = NoResult
    /\ divergences = << >>
    /\ weight = << >>
    /\ transposed = FALSE
    /\ amax = NoAmax
    /\ wcall = NoWCall
    /\ wevent = "none"

Self == [hist |-> calib_hist, edges |-> calib_bin_edges, num_bins |-> num_bins]
Fresh == [hist |-> fresh_hist, edges |-> fresh_bin_edges, num_bins |-> fresh_num_bins]

\* collect(x), on the calibrator and on the second one
Collect(x) ==
    LET r == CollectOp(Self, torch_hist, skip_zeros, x)
        f == CollectOp(Fresh, torch_hist, skip_zeros, x)
    IN /\ ingested + Ingest(skip_zeros, x) <= MaxTotal
       /\ Len(r.edges) <= MaxBins + 1 /\ r.num_bins <= MaxBins
       /\ Len(f.edges) <= MaxBins + 1 /\ f.num_bins <= MaxBins
       /\ calib_hist' = r.hist
       /\ calib_bin_edges' = r.edges
       /\ num_bins' = r.num_bins
       /\ fresh_hist' = f.hist
       /\ fresh_bin_edges' = f.edges
       /\ fresh_num_bins' = f.num_bins
       /\ ingested' = IF r.ev = "error" THEN ingested ELSE ingested + Ingest(skip_zeros, x)
       /\ batch' = x
       /\ event' = r.ev
       /\ call' = NoCall
       /\ result' = NoResult
       /\ divergences' = << >>
       /\ UNCHANGED <<config, wvars>>

\* reset(); the second calibrator is constructed anew
Reset ==
    /\ calib_bin_edges' = None
    /\ calib_hist' = None
    /\ fresh_num_bins' = ctor_num_bins
    /\ fresh_hist' = None
    /\ fresh_bin_edges' = None
    /\ ingested' = 0
    /\ batch' = << >>
    /\ event' = "reset"
    /\ call' = NoCall
    /\ result' = NoResult
    /\ divergences' = << >>
    /\ UNCHANGED <<config, num_bins, wvars>>

\* compute_amax(method, stride=, start_bin=, percentile=): a torch histogram is
\* copied by .int().cpu().numpy(), a numpy one is passed as it is
ComputeAmax(method, stride, start_bin, percentile) ==
    /\ call' = [method |-> method, stride |-> stride, start_bin |-> start_bin,
                percentile |-> percentile]
    /\ event' = "amax"
    /\ batch' = << >>
    /\ CASE method = "entropy" ->
              \E o \in ComputeAmaxEntropy(calib_hist, calib_bin_edges, stride, start_bin) :
                  /\ result' = o.result
                  /\ divergences' = o.d
                  /\ calib_hist' = IF torch_hist THEN calib_hist ELSE o.hist
         [] method = "mse" ->
              /\ result' \in ComputeAmaxMse(calib_hist, calib_bin_edges, stride, start_bin)
              /\ divergences' = << >>
              /\ calib_hist' = calib_hist
         [] method = "percentile" ->
              /\ result' = ComputeAmaxPercentile(calib_hist, calib_bin_edges, percentile)
              /\ divergences' = << >>
              /\ calib_hist' = calib_hist
         [] OTHER ->
              /\ result' = Error
              /\ divergences' = << >>
              /\ calib_hist' = calib_hist
    /\ UNCHANGED <<config, num_bins, calib_bin_edges, fresh_num_bins, fresh_hist,
                   fresh_bin_edges, ingested, wvars>>

Next ==
    \/ \E x \in Batches : Collect(x)
    \/ Reset
    \/ \E m \in {"entropy", "mse"}, st \in Strides, sb \in StartBins :
          ComputeAmax(m, st, sb, DefaultPercentile)
    \/ \E p \in Percentiles : ComputeAmax("percentile", 1, DefaultStartBin, p)
    \/ ComputeAmax("max", 1, DefaultStartBin, DefaultPercentile)

Spec == Init /\ [][Next]_vars

\* collect and reset alone
NextCollect ==
    \/ \E x \in Batches : Collect(x)
    \/ Reset

SpecCollect == Init /\ [][NextCollect]_vars

\* collect, reset, and the searches called while nothing is collected
NextEmpty ==
    \/ \E x \in Batches : Collect(x)
    \/ Reset
    \/ \E m \in {"entropy", "mse"}, st \in Strides, sb \in StartBins :
          /\ calib_hist = None /\ calib_bin_edges = None
          /\ ComputeAmax(m, st, sb, DefaultPercentile)
    \/ \E p \in Percentiles :
          /\ calib_hist = None /\ calib_bin_edges = None
          /\ ComputeAmax("percentile", 1, DefaultStartBin, p)

SpecEmpty == Init /\ [][NextEmpty]_vars

\* ------------------------------------------------------- calibrate_weights
\* the 2-D weights of at most MaxNumel elements
Weights == UNION {[1..d[1] -> [1..d[2] -> WValues]] :
                     d \in {e \in (1..MaxNumel) \X (1..MaxNumel) : e[1] * e[2] <= MaxNumel}}

\* module.weight.shape
Shape(w) == <<Len(w), Len(w[1])>>

\* the channel axis taken as axis 0 for every module type
ChannelAxisFirst(perchannel, isTransposed) == IF perchannel THEN 1 ELSE 0

\* axis = (1 if isinstance(module, channel_second_modules) else 0) if perchannel
\* else None, 1-based here; 0 is None
ChannelAxis(perchannel, isTransposed) ==
    IF perchannel THEN (IF isTransposed THEN 2 ELSE 1) ELSE 0

\* module.weight.index_select(axis, i).abs()...numpy(), flattened
Slice(w, axis, i) ==
    IF axis = 1 THEN [k \in 1..Len(w[i]) |-> Abs(w[i][k]) * Scale]
    ELSE [k \in 1..Len(w) |-> Abs(w[k][i]) * Scale]

\* module.weight.abs()...numpy(), flattened
RECURSIVE Flatten(_)
Flatten(w) == IF w = << >> THEN << >>
              ELSE [k \in DOMAIN w[1] |-> Abs(w[1][k]) * Scale] \o Flatten(Tail(w))

\* the arrays the histograms are collected on, one per channel (one in all
\* when axis is None)
InputWeights(w, axis) ==
    IF axis = 0 THEN <<Flatten(w)>>
    ELSE [i \in 1..Shape(w)[axis] |-> Slice(w, axis, i)]

\* quant_utils.reduce_amax(module.weight, axis=reduce_axis): the largest
\* magnitude of each channel (of the tensor when axis is None)
ReduceAmax(w, axis) ==
    LET xs == InputWeights(w, axis) IN [i \in DOMAIN xs |-> Value(SeqMax(xs[i]))]

\* calib_amax_shape, and squeeze_() when the result has one element
AmaxShape(w, axis) ==
    IF axis = 0 \/ Shape(w)[axis] = 1 THEN << >>
    ELSE [k \in 1..2 |-> IF k = axis THEN Shape(w)[axis] ELSE 1]

\* _compute_amax_mse / _compute_amax_percentile on the one-shot histogram of
\* the array xs: the results it can return
ChannelAmax(xs, method, percentile, nbins) ==
    LET h == NpHistogramRange(xs, nbins, 0, SeqMax(xs))
    IN IF method = "mse" THEN ComputeAmaxMse(h.hist, h.edges, 1, DefaultStartBin)
       ELSE {ComputeAmaxPercentile(h.hist, h.edges, percentile)}

\* calib_amax.extend(... for i in range(axis_size)): the lists of the first k
\* channels' results; a channel whose search raises ends the call
RECURSIVE ExtendAmax(_, _, _, _, _)
ExtendAmax(xs, method, percentile, nbins, k) ==
    IF k = 0 THEN {<< >>}
    ELSE {Append(l, r) : l \in ExtendAmax(xs, method, percentile, nbins, k - 1),
                         r \in {v \in ChannelAmax(xs[k], method, percentile, nbins) :
                                   v.kind = "value"}}

\* calibrate_weights on one module: the lists calib_amax it can build, or
\* {} when the call raises
CalibAmax(w, axis, method, percentile, nbins) ==
    LET xs == InputWeights(w, axis)
    IN IF method = "max" THEN {ReduceAmax(w, axis)}
       ELSE IF method \in {"mse", "percentile"}
       THEN ExtendAmax(xs, method, percentile, nbins, Len(xs))
       ELSE {}

\* calibrate_weights(model, method, perchannel, percentile, num_bins), the
\* model holding one quantized module
CalibrateWeights(method, perchannel, percentile, nbins) ==
    LET axis == ChannelAxis(perchannel, transposed)
        lists == CalibAmax(weight, axis, method, percentile, nbins)
    IN /\ wcall' = [method |-> method, perchannel |-> perchannel,
                    percentile |-> percentile, num_bins |-> nbins]
       /\ \/ /\ lists = {}
             /\ wevent' = "raised"
             /\ amax' = amax
          \/ /\ wevent' = "written"
             /\ \E a \in lists :
                    amax' = [shape |-> AmaxShape(weight, axis),
                             vals |-> [i \in DOMAIN a |-> a[i].val]]
       /\ UNCHANGED <<cvars, weight, transposed>>

\* a module with a weight and a weight_quantizer, beside a calibrator that
\* plays no part
InitW ==
    /\ torch_hist = TRUE
    /\ skip_zeros = FALSE
    /\ ctor_num_bins = 2
    /\ num_bins = ctor_num_bins
    /\ calib_hist = None
    /\ calib_bin_edges = None
    /\ fresh_num_bins = ctor_num_bins
    /\ fresh_hist = None
    /\ fresh_bin_edges = None
    /\ ingested = 0
    /\ batch = << >>
    /\ event = "init"
    /\ call = NoCall
    /\ result = NoResult
    /\ divergences = << >>
    /\ weight \in Weights
    /\ transposed \in BOOLEAN
    /\ amax = NoAmax
    /\ wcall = NoWCall
    /\ wevent = "none"

\* calibrate_weights reads nothing it wrote before (it overwrites amax), so one
\* call per module is followed
NextW ==
    \/ \E m \in WMethods \ {"percentile"}, pc \in BOOLEAN, nb \in WNumBinsMse :
          wevent = "none" /\ CalibrateWeights(m, pc, DefaultPercentile, nb)
    \/ \E pc \in BOOLEAN, p \in WPercentiles, nb \in WNumBins :
          wevent = "none" /\ CalibrateWeights("percentile", pc, p, nb)

SpecW == InitW /\ [][NextW]_vars

\* ------------------------------------------------------------------ claims
\* the values of the last batch that collect counted, as floats
Counted == IF skip_zeros THEN DropZeros(ToAbsFloat(batch)) ELSE ToAbsFloat(batch)

\* number of values of xs in bin i of edges (half-open, the last bin closed)
InBin(xs, edges, i) ==
    Cardinality({k \in DOMAIN xs :
        /\ xs[k] >= edges[i]
        /\ \/ xs[k] < edges[i + 1]
           \/ i = Len(edges) - 1 /\ xs[k] = edges[i + 1]})

\* C1: the stored counts sum to the number of values ingested since
\* construction or the last reset (exact zeros not counted under skip_zeros).
HistogramConservation == SumSeq(calib_hist) = ingested

\* C2: after reset() and any batches, the histogram state (bins, edges,
\* counts) equals that of a freshly constructed calibrator fed those batches.
ResetEquivalence ==
    /\ calib_hist = fresh_hist
    /\ calib_bin_edges = fresh_bin_edges

HistogramStructure ==
    \/ calib_hist = None /\ calib_bin_edges = None
    \/ /\ Len(calib_hist) = Len(calib_bin_edges) - 1
       /\ \A i \in 1..(Len(calib_bin_edges) - 1) :
              calib_bin_edges[i] <= calib_bin_edges[i + 1]
       /\ calib_bin_edges[1] = 0

\* C5: a compute_amax that returns leaves the stored counts and bin edges
\* unchanged.
ComputeAmaxIsPure ==
    [][(event' = "amax" /\ result'.kind # "error") =>
          /\ calib_hist' = calib_hist
          /\ calib_bin_edges' = calib_bin_edges]_vars

Empty == calib_hist = None /\ calib_bin_edges = None
Searched == event = "amax" /\ call.method \in {"entropy", "mse", "percentile"}

\* C6 as stated: on an empty calibrator every search method returns None,
\* whatever the stride, start_bin and percentile arguments.
EmptyReturnsNone == (Searched /\ Empty) => result = NoneResult

\* C6 amended: ... for every stride and start_bin and every percentile in
\* [0, 100]; a percentile outside [0, 100] raises even on an empty calibrator.
EmptyReturnsNoneValidPercentile ==
    (/\ Searched
     /\ Empty
     /\ call.method = "percentile" => (0 <= call.percentile /\ call.percentile <= PctFull))
    => result = NoneResult

\* C6 witness: a percentile search on a calibrator emptied by reset() after
\* an extension (num_bins grew) returned None
EmptySearched ==
    /\ Searched
    /\ Empty
    /\ call.method = "percentile"
    /\ num_bins # ctor_num_bins
    /\ result = NoneResult

\* index of the last non-empty bin
LastNonEmpty(hist) == CHOOSE i \in DOMAIN hist :
    hist[i] # 0 /\ \A j \in DOMAIN hist : hist[j] # 0 => j <= i

\* C7: on a histogram with a non-zero count, percentile=100 returns the upper
\* edge of the last non-empty bin and percentile=0 returns edges[0].
PercentileBoundary ==
    (/\ event = "amax"
     /\ call.method = "percentile"
     /\ ~Empty
     /\ SumSeq(calib_hist) > 0)
    => /\ call.percentile = PctFull =>
              result = Value(calib_bin_edges[LastNonEmpty(calib_hist) + 1])
       /\ call.percentile = 0 => result = Value(calib_bin_edges[1])

\* a <= b on floats: false when either is NaN
FloatLeq(a, b) == a # NaN /\ b # NaN /\ a <= b

\* C8: an entropy search that returns gives edges[i*], i* the largest
\* candidate cut whose divergence is the minimum over all candidates, and
\* i* indexes an existing edge.
EntropySelectsLastMinimum ==
    (/\ event = "amax"
     /\ call.method = "entropy"
     /\ result.kind = "value")
    => LET cand == PyRange(call.start_bin, Len(calib_hist) + 1, call.stride)
           mins == {k \in DOMAIN cand :
                       \A j \in DOMAIN cand : FloatLeq(divergences[k], divergences[j])}
       IN /\ mins # {}
          /\ LET best == cand[CHOOSE k \in mins : \A j \in mins : j <= k]
             IN /\ best + 1 \in DOMAIN calib_bin_edges
                /\ result = Value(calib_bin_edges[best + 1])

\* the channel axis the last calibrate_weights was to use (0: per tensor)
CalledAxis == IF wcall.perchannel THEN (IF transposed THEN 2 ELSE 1) ELSE 0

\* number of channels: the weight's size along the channel axis
Channels == IF CalledAxis = 0 THEN 1 ELSE Shape(weight)[CalledAxis]

\* the positions of the weight that belong to channel i
Positions(i) ==
    {p \in (1..Len(weight)) \X (1..Len(weight[1])) :
        /\ CalledAxis = 1 => p[1] = i
        /\ CalledAxis = 2 => p[2] = i}

Mag(p) == Abs(weight[p[1]][p[2]]) * Scale

\* max |slice i|
ChannelMax(i) == CHOOSE m \in {Mag(p) : p \in Positions(i)} :
                     \A q \in Positions(i) : Mag(q) <= m

\* the range of channel i's one-shot histogram, range=(0, max |slice i|):
\* numpy widens the empty range of an all-zero slice to (-0.5, 0.5)
ChannelLo(i) == IF ChannelMax(i) = 0 THEN 0 - Scale \div 2 ELSE 0
ChannelHi(i) == IF ChannelMax(i) = 0 THEN Scale \div 2 ELSE ChannelMax(i)

\* v is the percentile threshold of channel i alone: the lower edge of the
\* first of the num_bins equal bins at which the share of the channel's values
\* in the bins so far reaches percentile/100
IsChannelPercentile(v, i) ==
    LET nb == wcall.num_bins
        span == ChannelHi(i) - ChannelLo(i)
        n == Cardinality(Positions(i))
        UpTo(j) == IF j = nb - 1 THEN n
                   ELSE Cardinality({p \in Positions(i) :
                            (Mag(p) - ChannelLo(i)) * nb < (j + 1) * span})
        Reaches(j) == UpTo(j) * PctFull >= wcall.percentile * n
    IN \E j \in 0..(nb - 1) :
          /\ Reaches(j)
          /\ \A k \in 0..(j - 1) : ~Reaches(k)
          /\ (v - ChannelLo(i)) * nb = j * span

\* v is the center of a bin of channel i's histogram at or after start_bin
IsChannelCenter(v, i) ==
    LET nb == wcall.num_bins
        span == ChannelHi(i) - ChannelLo(i)
    IN \E j \in DefaultStartBin..(nb - 1) :
          (v - ChannelLo(i)) * 2 * nb = (2 * j + 1) * span

\* the values written are one per channel, in channel order, each computed
\* from its channel alone
ChannelValues ==
    /\ Len(amax.vals) = Channels
    /\ \A i \in 1..Channels :
          /\ wcall.method = "max" => amax.vals[i] = ChannelMax(i)
          /\ wcall.method = "percentile" => IsChannelPercentile(amax.vals[i], i)
          /\ wcall.method = "mse" => IsChannelCenter(amax.vals[i], i)

AllOnesShape == [k \in 1..2 |-> IF k = CalledAxis THEN Channels ELSE 1]

SearchYieldsThreshold ==
    (/\ event = "amax"
     /\ call.method \in {"entropy", "mse"}
     /\ ~Empty
     /\ ingested > 0)
    => /\ result.kind = "value"
       /\ call.method = "entropy" =>
              \E i \in DOMAIN calib_bin_edges : result.val = calib_bin_edges[i]
       /\ call.method = "mse" =>
              \E i \in DOMAIN calib_hist : result.val = Centers(calib_bin_edges)[i]

====
